---- MODULE Spec2Model ----
(***************************************************************************)
(* Model of AirlineSupportBot (python_airline_support_bot/bot.py): the     *)
(* flight catalog, the tool dispatch and the process_message orchestration *)
(* loop with its durable conversation history.                             *)
(*                                                                         *)
(* A Python str is a sequence of atoms.  Data that the code inspects       *)
(* (identifiers, city names) is a sequence of one-character atoms; the     *)
(* fixed pieces of the f-string templates are spelled the same way where   *)
(* a property reads them, and are single multi-character atoms elsewhere.  *)
(* String concatenation is \o, "x in s" is Contains(x, s).                 *)
(* The bullet and arrow glyphs of the templates are written "*" and        *)
(* "->"; a newline is the atom NL.                                         *)
(***************************************************************************)
EXTENDS Integers, Sequences, FiniteSets, TLC

(* ------------------------------ bounds --------------------------------- *)

\* Longest durable history at which a new process_message is still started.
MaxHist == 10

\* Most tool-call requests carried by one model response.
MaxToolCalls == 2

(* ----------------------------- Python values --------------------------- *)

\* Python None where a str is expected (Optional[str], message content).
None == <<"<None>">>

NL == "<nl>"

Whitespace == {" ", NL}

\* Truthiness of an Optional[str]: None and "" are falsy.
Truthy(s) == s # None /\ s # <<>>

UpperChar(c) ==
    CASE c = "a" -> "A" [] c = "b" -> "B" [] c = "c" -> "C" [] c = "d" -> "D"
      [] c = "e" -> "E" [] c = "f" -> "F" [] c = "g" -> "G" [] c = "h" -> "H"
      [] c = "i" -> "I" [] c = "j" -> "J" [] c = "k" -> "K" [] c = "l" -> "L"
      [] c = "m" -> "M" [] c = "n" -> "N" [] c = "o" -> "O" [] c = "p" -> "P"
      [] c = "q" -> "Q" [] c = "r" -> "R" [] c = "s" -> "S" [] c = "t" -> "T"
      [] c = "u" -> "U" [] c = "v" -> "V" [] c = "w" -> "W" [] c = "x" -> "X"
      [] c = "y" -> "Y" [] c = "z" -> "Z" [] OTHER -> c

LowerChar(c) ==
    CASE c = "A" -> "a" [] c = "B" -> "b" [] c = "C" -> "c" [] c = "D" -> "d"
      [] c = "E" -> "e" [] c = "F" -> "f" [] c = "G" -> "g" [] c = "H" -> "h"
      [] c = "I" -> "i" [] c = "J" -> "j" [] c = "K" -> "k" [] c = "L" -> "l"
      [] c = "M" -> "m" [] c = "N" -> "n" [] c = "O" -> "o" [] c = "P" -> "p"
      [] c = "Q" -> "q" [] c = "R" -> "r" [] c = "S" -> "s" [] c = "T" -> "t"
      [] c = "U" -> "u" [] c = "V" -> "v" [] c = "W" -> "w" [] c = "X" -> "x"
      [] c = "Y" -> "y" [] c = "Z" -> "z" [] OTHER -> c

\* str.upper() and str.lower()
Upper(s) == [i \in 1..Len(s) |-> UpperChar(s[i])]

Lower(s) == [i \in 1..Len(s) |-> LowerChar(s[i])]

\* Python "sub in s" on strings
Contains(sub, s) ==
    \E i \in 0..(Len(s) - Len(sub)) : SubSeq(s, i + 1, i + Len(sub)) = sub

\* str.strip(): drop leading and trailing whitespace
RECURSIVE RStrip(_)
RStrip(s) ==
    IF s # <<>> /\ s[Len(s)] \in Whitespace THEN RStrip(SubSeq(s, 1, Len(s) - 1)) ELSE s

RECURSIVE LStrip(_)
LStrip(s) ==
    IF s # <<>> /\ s[1] \in Whitespace THEN LStrip(Tail(s)) ELSE s

Strip(s) == LStrip(RStrip(s))

\* Variant: conversation_history[:n], the first n elements
FirstN(s, n) == IF Len(s) <= n THEN s ELSE SubSeq(s, 1, n)

\* conversation_history[-n:] : the last n elements, all of them when fewer
LastN(s, n) == IF Len(s) <= n THEN s ELSE SubSeq(s, Len(s) - n + 1, Len(s))

(* ---------------------------- flight catalog --------------------------- *)

Flight_AA123 ==
    [flight_number |-> <<"A", "A", "1", "2", "3">>,
     departure_city |-> <<"N", "e", "w", " ", "Y", "o", "r", "k", " ", "(", "J", "F", "K", ")">>,
     arrival_city |-> <<"L", "o", "s", " ", "A", "n", "g", "e", "l", "e", "s", " ", "(", "L", "A", "X", ")">>,
     departure_time |-> <<"0", "8", ":", "0", "0", " ", "A", "M">>,
     arrival_time |-> <<"1", "1", ":", "3", "0", " ", "A", "M">>,
     status |-> <<"O", "n", " ", "T", "i", "m", "e">>,
     gate |-> <<"A", "1", "2">>,
     terminal |-> <<"T", "e", "r", "m", "i", "n", "a", "l", " ", "4">>]

Flight_DL456 ==
    [flight_number |-> <<"D", "L", "4", "5", "6">>,
     departure_city |-> <<"C", "h", "i", "c", "a", "g", "o", " ", "(", "O", "R", "D", ")">>,
     arrival_city |-> <<"M", "i", "a", "m", "i", " ", "(", "M", "I", "A", ")">>,
     departure_time |-> <<"0", "2", ":", "1", "5", " ", "P", "M">>,
     arrival_time |-> <<"0", "6", ":", "4", "5", " ", "P", "M">>,
     status |-> <<"D", "e", "l", "a", "y", "e", "d", " ", "-", " ", "3", "0", " ", "m", "i", "n", "u", "t", "e", "s">>,
     gate |-> <<"B", "8">>,
     terminal |-> <<"T", "e", "r", "m", "i", "n", "a", "l", " ", "1">>]

Flight_UA789 ==
    [flight_number |-> <<"U", "A", "7", "8", "9">>,
     departure_city |-> <<"S", "a", "n", " ", "F", "r", "a", "n", "c", "i", "s", "c", "o", " ", "(", "S", "F", "O", ")">>,
     arrival_city |-> <<"S", "e", "a", "t", "t", "l", "e", " ", "(", "S", "E", "A", ")">>,
     departure_time |-> <<"0", "5", ":", "2", "0", " ", "P", "M">>,
     arrival_time |-> <<"0", "7", ":", "4", "0", " ", "P", "M">>,
     status |-> <<"B", "o", "a", "r", "d", "i", "n", "g">>,
     gate |-> <<"C", "1", "5">>,
     terminal |-> <<"T", "e", "r", "m", "i", "n", "a", "l", " ", "3">>]

Flight_SW101 ==
    [flight_number |-> <<"S", "W", "1", "0", "1">>,
     departure_city |-> <<"D", "e", "n", "v", "e", "r", " ", "(", "D", "E", "N", ")">>,
     arrival_city |-> <<"P", "h", "o", "e", "n", "i", "x", " ", "(", "P", "H", "X", ")">>,
     departure_time |-> <<"0", "9", ":", "4", "5", " ", "A", "M">>,
     arrival_time |-> <<"1", "1", ":", "1", "0", " ", "A", "M">>,
     status |-> <<"C", "a", "n", "c", "e", "l", "l", "e", "d">>,
     gate |-> None,
     terminal |-> <<"T", "e", "r", "m", "i", "n", "a", "l", " ", "W", "e", "s", "t">>]

\* _create_sample_flight_data: the dict in insertion order
FlightOrder == <<Flight_AA123, Flight_DL456, Flight_UA789, Flight_SW101>>

FlightKeys == {FlightOrder[i].flight_number : i \in 1..Len(FlightOrder)}

flight_database ==
    [k \in FlightKeys |->
        FlightOrder[CHOOSE i \in 1..Len(FlightOrder) : FlightOrder[i].flight_number = k]]

\* dict.get(key): None when the key is absent
NoFlight == [flight_number |-> None]

\* Variant: the identifier is looked up as typed
_get_flight_info_exact(flight_number) ==
    IF flight_number \in DOMAIN flight_database
    THEN flight_database[flight_number]
    ELSE NoFlight

_get_flight_info(flight_number) ==
    IF Upper(flight_number) \in DOMAIN flight_database
    THEN flight_database[Upper(flight_number)]
    ELSE NoFlight

_format_flight_info(flight) ==
    LET \* "Flight {flight_number}:\n* Route: {departure_city} -> {arrival_city}"
        info == <<"F", "l", "i", "g", "h", "t", " ">> \o flight.flight_number
                \o <<":", NL, "*", " ", "R", "o", "u", "t", "e", ":", " ">>
                \o flight.departure_city \o <<" ", "->", " ">> \o flight.arrival_city
                \* "\n* Departure: {departure_time}"
                \o <<NL, "*", " ", "D", "e", "p", "a", "r", "t", "u", "r", "e", ":", " ">>
                \o flight.departure_time
                \* "\n* Arrival: {arrival_time}"
                \o <<NL, "*", " ", "A", "r", "r", "i", "v", "a", "l", ":", " ">>
                \o flight.arrival_time
                \* "\n* Status: {status}"
                \o <<NL, "*", " ", "S", "t", "a", "t", "u", "s", ":", " ">>
                \o flight.status
        \* "\n* Terminal: {terminal}"
        info1 == IF Truthy(flight.terminal)
                 THEN info \o <<NL, "*", " ", "T", "e", "r", "m", "i", "n", "a", "l", ":", " ">>
                           \o flight.terminal
                 ELSE info
    IN  \* "\n* Gate: {gate}"
        IF Truthy(flight.gate)
        THEN info1 \o <<NL, "*", " ", "G", "a", "t", "e", ":", " ">> \o flight.gate
        ELSE info1

get_available_flights == FlightOrder

\* Variant: the query is compared as typed
SearchQueryCaseSensitive(departure_city, arrival_city) ==
    SelectSeq(FlightOrder,
              LAMBDA flight :
                  /\ Contains(departure_city, Lower(flight.departure_city))
                  /\ Contains(arrival_city, Lower(flight.arrival_city)))

\* search_flights_by_route on two str arguments
search_flights_by_route(departure_city, arrival_city) ==
    SelectSeq(FlightOrder,
              LAMBDA flight :
                  /\ Contains(Lower(departure_city), Lower(flight.departure_city))
                  /\ Contains(Lower(arrival_city), Lower(flight.arrival_city)))

(* ------------------------------ tool dispatch --------------------------- *)

\* _create_tools: the registry, in order (name and required parameters)
tools ==
    << [type |-> "function", name |-> <<"get_flight_info">>,
        required |-> <<"flight_number">>],
       [type |-> "function", name |-> <<"search_flights_by_route">>,
        required |-> <<"departure_city", "arrival_city">>],
       [type |-> "function", name |-> <<"get_all_flights">>,
        required |-> <<>>] >>

\* A JSON value inside an argument object: a str, or an int whose str() is v.
StrVal(s) == [t |-> "str", v |-> s]

IntVal(s) == [t |-> "int", v |-> s]

\* str(e) of the AttributeError raised by calling a str/dict method on a
\* value of another type
AttributeError(pytype, attr) ==
    <<"'", pytype, "' object has no attribute '", attr, "'">>

\* str(e) of json.JSONDecodeError
JSONDecodeError == <<"Expecting value: line 1 column 1 (char 0)">>

\* Variant: a payload that does not parse is handed on as it is
JsonLoadsLenient(arguments) == [raised |-> FALSE, value |-> arguments]

\* json.loads(tool_call.function.arguments).  A payload is
\* [json |-> "invalid"], [json |-> "list"] or [json |-> "dict", items |-> f].
json_loads(arguments) ==
    IF arguments.json = "invalid"
    THEN [raised |-> TRUE, error |-> JSONDecodeError]
    ELSE [raised |-> FALSE, value |-> arguments]

\* arguments.get(key, "") on a parsed dict
DictGet(arguments, key) ==
    IF key \in DOMAIN arguments.items THEN arguments.items[key] ELSE StrVal(<<>>)

\* Variant: the identifier is echoed as it was looked up (upper case)
NotFoundTextNormalized(flight_number) ==
    <<"F", "l", "i", "g", "h", "t", " ">> \o Upper(flight_number)
    \o <<" ", "n", "o", "t", " ", "f", "o", "u", "n", "d", " ", "i", "n", " ", "o", "u",
         "r", " ", "s", "y", "s", "t", "e", "m", ".", " ", "P", "l", "e", "a", "s", "e",
         " ", "v", "e", "r", "i", "f", "y", " ", "t", "h", "e", " ", "f", "l", "i", "g",
         "h", "t", " ", "n", "u", "m", "b", "e", "r", " ", "o", "r", " ", "c", "o", "n",
         "t", "a", "c", "t", " ", "c", "u", "s", "t", "o", "m", "e", "r", " ", "s", "e",
         "r", "v", "i", "c", "e", ".">>

\* line 204: "Flight {flight_number} not found in our system. Please verify
\* the flight number or contact customer service."
NotFoundText(flight_number) ==
    <<"F", "l", "i", "g", "h", "t", " ">> \o flight_number
    \o <<" ", "n", "o", "t", " ", "f", "o", "u", "n", "d", " ", "i", "n", " ", "o", "u",
         "r", " ", "s", "y", "s", "t", "e", "m", ".", " ", "P", "l", "e", "a", "s", "e",
         " ", "v", "e", "r", "i", "f", "y", " ", "t", "h", "e", " ", "f", "l", "i", "g",
         "h", "t", " ", "n", "u", "m", "b", "e", "r", " ", "o", "r", " ", "c", "o", "n",
         "t", "a", "c", "t", " ", "c", "u", "s", "t", "o", "m", "e", "r", " ", "s", "e",
         "r", "v", "i", "c", "e", ".">>

\* Variant: a fixed text that does not name the function
UnknownFunctionTextBare(function_name) ==
    <<"U", "n", "k", "n", "o", "w", "n", " ", "f", "u", "n", "c", "t", "i", "o", "n">>

\* line 227: "Unknown function: {function_name}"
UnknownFunctionText(function_name) ==
    <<"U", "n", "k", "n", "o", "w", "n", " ", "f", "u", "n", "c", "t", "i", "o", "n", ":",
      " ">>
    \o function_name

\* The body of the try block of _execute_function: either a returned text
\* or a raised exception with its str(e).
ExecuteTry(function_name, arguments) ==
    IF function_name = <<"get_flight_info">> THEN
        IF arguments.json # "dict"
        THEN [raised |-> TRUE, error |-> AttributeError(arguments.json, "get")]
        ELSE LET flight_number == DictGet(arguments, "flight_number") IN
             IF flight_number.t # "str"
             THEN [raised |-> TRUE, error |-> AttributeError(flight_number.t, "upper")]
             ELSE LET flight == _get_flight_info(flight_number.v) IN
                  IF flight # NoFlight
                  THEN [raised |-> FALSE, value |-> _format_flight_info(flight)]
                  ELSE [raised |-> FALSE, value |-> NotFoundText(flight_number.v)]
    ELSE IF function_name = <<"search_flights_by_route">> THEN
        IF arguments.json # "dict"
        THEN [raised |-> TRUE, error |-> AttributeError(arguments.json, "get")]
        ELSE LET departure_city == DictGet(arguments, "departure_city")
                 arrival_city == DictGet(arguments, "arrival_city")
             IN
             \* departure_city.lower() is evaluated for the first record;
             \* arrival_city.lower() only once a departure city has matched
             IF departure_city.t # "str"
             THEN [raised |-> TRUE, error |-> AttributeError(departure_city.t, "lower")]
             ELSE IF /\ arrival_city.t # "str"
                     /\ \E i \in 1..Len(FlightOrder) :
                            Contains(Lower(departure_city.v), Lower(FlightOrder[i].departure_city))
             THEN [raised |-> TRUE, error |-> AttributeError(arrival_city.t, "lower")]
             ELSE LET flights == IF arrival_city.t = "str"
                                 THEN search_flights_by_route(departure_city.v, arrival_city.v)
                                 ELSE <<>>
                      RECURSIVE Listing(_)
                      Listing(i) == IF i > Len(flights) THEN <<>>
                                    ELSE _format_flight_info(flights[i]) \o <<NL, NL>> \o Listing(i + 1)
                  IN
                  IF flights # <<>>
                  THEN [raised |-> FALSE,
                        value |-> Strip(<<"Found ", ToString(Len(flights)), " flight(s) from ">>
                                        \o departure_city.v \o <<" to ">> \o arrival_city.v
                                        \o <<":", NL, NL>> \o Listing(1))]
                  ELSE [raised |-> FALSE,
                        value |-> <<"No flights found", " from ">> \o departure_city.v
                                  \o <<" to ">> \o arrival_city.v \o <<".">>]
    ELSE IF function_name = <<"get_all_flights">> THEN
        LET flights == get_available_flights
            RECURSIVE Listing(_)
            Listing(i) == IF i > Len(flights) THEN <<>>
                          ELSE _format_flight_info(flights[i]) \o <<NL, NL>> \o Listing(i + 1)
        IN  [raised |-> FALSE,
             value |-> Strip(<<"All available flights", " (", ToString(Len(flights)), " total):", NL, NL>>
                             \o Listing(1))]
    ELSE [raised |-> FALSE, value |-> UnknownFunctionText(function_name)]

\* An exception that leaves a method instead of a returned text
Raise(e) == <<"<raise>">> \o e

\* Variant: no except clause, the exception leaves _execute_function
ExecuteWithoutExcept(function_name, arguments) ==
    LET r == ExecuteTry(function_name, arguments) IN
    IF r.raised THEN Raise(r.error) ELSE r.value

\* _execute_function: the except clause turns any exception into a text
_execute_function(function_name, arguments) ==
    LET r == ExecuteTry(function_name, arguments) IN
    IF r.raised
    THEN <<"Error executing ">> \o function_name \o <<": ">> \o r.error
    ELSE r.value

(* --------------------------- orchestration loop ------------------------- *)

\* conversation_history[-10:]
HistoryWindow == 10

\* Two threads may call into one bot; the sequential caller is thread 1.
Procs == {1, 2}

SeqProcs == {1}

\* Inputs: what the caller types and what the remote model answers.
UserTexts == {<<"u1">>}

Contents == {<<"r1">>, None}

Errors == {<<"API Error">>, <<"Rate limit exceeded">>}

ToolCallRequests ==
    { [id |-> "call_1",
       function |-> [name |-> <<"get_flight_info">>,
                     arguments |-> [json |-> "dict",
                                    items |-> [flight_number |-> StrVal(<<"a", "a", "1", "2", "3">>)]]]],
      [id |-> "call_2",
       function |-> [name |-> <<"search_flights_by_route">>,
                     arguments |-> [json |-> "list"]]],
      [id |-> "call_3",
       function |-> [name |-> <<"get_flight_info">>,
                     arguments |-> [json |-> "invalid"]]] }

RECURSIVE SeqsUpTo(_, _)
SeqsUpTo(S, n) ==
    IF n = 0 THEN {<<>>}
    ELSE LET shorter == SeqsUpTo(S, n - 1) IN
         shorter \cup {Append(s, x) : s \in {t \in shorter : Len(t) = n - 1}, x \in S}

\* response.choices[0].message of a call that returned; tool_calls None or []
\* is <<>>
Responses ==
    {[content |-> c, tool_calls |-> tc] :
        c \in Contents, tc \in SeqsUpTo(ToolCallRequests, MaxToolCalls)}

\* What the second call may answer: its tool_calls, if any, are not read.
FinalResponses ==
    {r \in Responses : Len(r.tool_calls) = 0 \/ r.tool_calls = <<CHOOSE t \in ToolCallRequests : t.id = "call_1">>}

system_prompt == <<"You are a helpful airline customer support assistant.">>

\* Variant: a generic apology without str(e)
ApologyWithoutDetail(e) ==
    <<"I apologize, but I'm experiencing ", "technical difficulties",
      ". Please try again later or contact customer service directly.">>

\* The text of the except clause of process_message
Apology(e) ==
    <<"I apologize, but I'm experiencing ", "technical difficulties",
      ". Please try again later or contact customer service directly. Error: ">> \o e

\* Variant: storage capped to the transmitted window
ListAppendCapped(list, item) ==
    IF Len(list) < 10 THEN Append(list, item) ELSE Tail(Append(list, item))

\* list.append
ListAppend(list, item) == Append(list, item)

\* line 243: the durable entry of the incoming text
UserEntry(text) == [role |-> "user", content |-> text]

\* Variant: the reply stored under the role of line 243
AssistantEntryAsUser(text) == [role |-> "user", content |-> text]

\* line 300: the durable entry of the reply
AssistantEntry(text) == [role |-> "assistant", content |-> text]

\* lines 265-269: the assistant message that carries the tool-call requests
ToolCallMessage(response_message) ==
    [role |-> "assistant", content |-> response_message.content,
     tool_calls |-> response_message.tool_calls]

\* lines 280-284: the tool-result message of one request
ToolResultMessage(tool_call, function_result) ==
    [role |-> "tool", tool_call_id |-> tool_call.id, content |-> function_result]

\* Variant: the text is read from response_message, not final_response
FinalTextFromFirst(first_response, final_response) == first_response.content

\* line 294: the text of the second response
FinalText(first_response, final_response) == final_response.content

VARIABLES
    conversation_history,   \* self.conversation_history
    pc,                     \* per thread: where it is in process_message
    user_message,           \* per thread: the argument of process_message
    messages,               \* per thread: the outgoing list
    tool_calls,             \* per thread: response_message.tool_calls
    idx,                    \* per thread: position of the for loop
    bot_response,           \* per thread: bot_response
    ret,                    \* per thread: the returned text
    requests,               \* per thread: the remote calls issued so far
    responses,              \* per thread: the responses received so far
    dispatched,             \* per thread: the _execute_function calls made
    outcome,                \* per thread: "none", "ok", "remote_error", "parse_error"
    hist0,                  \* per thread: the history when it was invoked
    sinceReset,             \* messages appended since the last reset
    wasReset,               \* a reset has emptied a non-empty history
    failures,               \* process_message calls that failed since the last reset
    direct                  \* the last direct call of a method and its result

vars == <<conversation_history, pc, user_message, messages, tool_calls, idx,
          bot_response, ret, requests, responses, dispatched, outcome, hist0,
          sinceReset, wasReset, failures, direct>>

locals == <<user_message, messages, tool_calls, idx, bot_response, ret,
            requests, responses, dispatched, outcome, hist0>>

Init ==
    /\ conversation_history = <<>>
    /\ pc = [p \in Procs |-> "idle"]
    /\ user_message = [p \in Procs |-> None]
    /\ messages = [p \in Procs |-> <<>>]
    /\ tool_calls = [p \in Procs |-> <<>>]
    /\ idx = [p \in Procs |-> 0]
    /\ bot_response = [p \in Procs |-> None]
    /\ ret = [p \in Procs |-> None]
    /\ requests = [p \in Procs |-> <<>>]
    /\ responses = [p \in Procs |-> <<>>]
    /\ dispatched = [p \in Procs |-> <<>>]
    /\ outcome = [p \in Procs |-> "none"]
    /\ hist0 = [p \in Procs |-> <<>>]
    /\ sinceReset = 0
    /\ wasReset = FALSE
    /\ failures = 0
    /\ direct = [op |-> "none"]

\* line 243: append the user message to the durable history
AppendUser(p, text) ==
    /\ pc[p] = "idle"
    /\ UNCHANGED <<failures, direct>>
    /\ Len(conversation_history) <= MaxHist
    /\ conversation_history' = ListAppend(conversation_history, UserEntry(text))
    /\ sinceReset' = sinceReset + 1
    /\ UNCHANGED wasReset
    /\ hist0' = [hist0 EXCEPT ![p] = conversation_history]
    /\ user_message' = [user_message EXCEPT ![p] = text]
    /\ pc' = [pc EXCEPT ![p] = "build"]
    /\ UNCHANGED <<messages, tool_calls, idx, bot_response, ret, requests,
                   responses, dispatched, outcome>>

\* Variant: the list is built from the caller's own view of the history
BuildMessagesSnapshot(p) ==
    /\ pc[p] = "build"
    /\ UNCHANGED <<failures, direct>>
    /\ messages' = [messages EXCEPT ![p] =
            <<[role |-> "system", content |-> system_prompt]>>
            \o LastN(Append(hist0[p], UserEntry(user_message[p])), HistoryWindow)]
    /\ pc' = [pc EXCEPT ![p] = "call1"]
    /\ UNCHANGED <<conversation_history, sinceReset, wasReset, user_message, tool_calls, idx,
                   bot_response, ret, requests, responses, dispatched, outcome, hist0>>

\* lines 246-247: the outgoing list
BuildMessages(p) ==
    /\ pc[p] = "build"
    /\ UNCHANGED <<failures, direct>>
    /\ messages' = [messages EXCEPT ![p] =
            <<[role |-> "system", content |-> system_prompt]>>
            \o LastN(conversation_history, HistoryWindow)]
    /\ pc' = [pc EXCEPT ![p] = "call1"]
    /\ UNCHANGED <<conversation_history, sinceReset, wasReset, user_message, tool_calls, idx,
                   bot_response, ret, requests, responses, dispatched, outcome, hist0>>

\* Variant: only the first descriptor of the registry is sent
FirstRequestOneTool(msgs) ==
    [model |-> "gpt-3.5-turbo", messages |-> msgs, tools |-> <<tools[1]>>,
     tool_choice |-> "auto", max_tokens |-> 500, temperature |-> "0.7"]

\* lines 251-258: the request of the first remote call
FirstRequest(msgs) ==
    [model |-> "gpt-3.5-turbo", messages |-> msgs, tools |-> tools,
     tool_choice |-> "auto", max_tokens |-> 500, temperature |-> "0.7"]

\* Variant: the second request repeats the tool schema
SecondRequestWithTools(msgs) ==
    [model |-> "gpt-3.5-turbo", messages |-> msgs, tools |-> tools,
     tool_choice |-> "auto", max_tokens |-> 500, temperature |-> "0.7"]

\* lines 287-292: the request of the second remote call
SecondRequest(msgs) ==
    [model |-> "gpt-3.5-turbo", messages |-> msgs, max_tokens |-> 500,
     temperature |-> "0.7"]

\* lines 304-305: the except clause of process_message
Fail(p, e, why) ==
    /\ ret' = [ret EXCEPT ![p] = Apology(e)]
    /\ responses' = [responses EXCEPT ![p] = Append(@, [error |-> e])]
    /\ failures' = failures + 1
    /\ outcome' = [outcome EXCEPT ![p] = why]
    /\ pc' = [pc EXCEPT ![p] = "done"]

\* Variant: the apology is stored as the assistant's reply
FirstCallFailsRecordsApology(p, e) ==
    /\ pc[p] = "call1"
    /\ UNCHANGED direct
    /\ requests' = [requests EXCEPT ![p] = Append(@, FirstRequest(messages[p]))]
    /\ Fail(p, e, "remote_error")
    /\ conversation_history' = ListAppend(conversation_history, AssistantEntry(Apology(e)))
    /\ sinceReset' = sinceReset + 1
    /\ UNCHANGED <<wasReset, user_message, messages, tool_calls,
                   idx, bot_response, dispatched, hist0>>

\* lines 251-258 raising
FirstCallFails(p, e) ==
    /\ pc[p] = "call1"
    /\ UNCHANGED direct
    /\ requests' = [requests EXCEPT ![p] = Append(@, FirstRequest(messages[p]))]
    /\ Fail(p, e, "remote_error")
    /\ UNCHANGED <<conversation_history, sinceReset, wasReset, user_message, messages, tool_calls,
                   idx, bot_response, dispatched, hist0>>

\* lines 251-269 and 295-297: the first remote call returns
FirstCall(p, response_message) ==
    /\ pc[p] = "call1"
    /\ UNCHANGED <<failures, direct>>
    /\ requests' = [requests EXCEPT ![p] = Append(@, FirstRequest(messages[p]))]
    /\ responses' = [responses EXCEPT ![p] = Append(@, response_message)]
    /\ IF response_message.tool_calls # <<>>
       THEN /\ messages' = [messages EXCEPT ![p] =
                    ListAppend(@, ToolCallMessage(response_message))]
            /\ tool_calls' = [tool_calls EXCEPT ![p] = response_message.tool_calls]
            /\ idx' = [idx EXCEPT ![p] = 1]
            /\ pc' = [pc EXCEPT ![p] = "tools"]
            /\ UNCHANGED bot_response
       ELSE /\ bot_response' = [bot_response EXCEPT ![p] = response_message.content]
            /\ pc' = [pc EXCEPT ![p] = "reply"]
            /\ UNCHANGED <<messages, tool_calls, idx>>
    /\ UNCHANGED <<conversation_history, sinceReset, wasReset, user_message, ret, dispatched,
                   outcome, hist0>>

\* Variant: only the first requested tool call is executed
ToolCallFirstOnly(p) ==
    /\ pc[p] = "tools"
    /\ UNCHANGED direct
    /\ LET tool_call == tool_calls[p][idx[p]]
           function_name == tool_call.function.name
           function_args == json_loads(tool_call.function.arguments)
       IN
       IF function_args.raised
       THEN /\ Fail(p, function_args.error, "parse_error")
            /\ UNCHANGED <<messages, idx, dispatched>>
       ELSE /\ messages' = [messages EXCEPT ![p] =
                    ListAppend(@, ToolResultMessage(tool_call,
                                   _execute_function(function_name, function_args.value)))]
            /\ dispatched' = [dispatched EXCEPT ![p] = Append(@, idx[p])]
            /\ idx' = [idx EXCEPT ![p] = @ + 1]
            /\ pc' = [pc EXCEPT ![p] = "call2"]
            /\ UNCHANGED <<ret, outcome, responses, failures>>
    /\ UNCHANGED <<conversation_history, sinceReset, wasReset, user_message, tool_calls,
                   bot_response, requests, hist0>>

\* lines 272-284: one iteration of the for loop
ToolCall(p) ==
    /\ pc[p] = "tools"
    /\ UNCHANGED direct
    /\ LET tool_call == tool_calls[p][idx[p]]
           function_name == tool_call.function.name
           function_args == json_loads(tool_call.function.arguments)
       IN
       IF function_args.raised
       THEN /\ Fail(p, function_args.error, "parse_error")
            /\ UNCHANGED <<messages, idx, dispatched>>
       ELSE /\ messages' = [messages EXCEPT ![p] =
                    ListAppend(@, ToolResultMessage(tool_call,
                                   _execute_function(function_name, function_args.value)))]
            /\ dispatched' = [dispatched EXCEPT ![p] = Append(@, idx[p])]
            /\ idx' = [idx EXCEPT ![p] = @ + 1]
            /\ pc' = [pc EXCEPT ![p] = IF idx[p] = Len(tool_calls[p]) THEN "call2" ELSE "tools"]
            /\ UNCHANGED <<ret, outcome, responses, failures>>
    /\ UNCHANGED <<conversation_history, sinceReset, wasReset, user_message, tool_calls,
                   bot_response, requests, hist0>>

\* lines 287-292 raising
SecondCallFails(p, e) ==
    /\ pc[p] = "call2"
    /\ UNCHANGED direct
    /\ requests' = [requests EXCEPT ![p] = Append(@, SecondRequest(messages[p]))]
    /\ Fail(p, e, "remote_error")
    /\ UNCHANGED <<conversation_history, sinceReset, wasReset, user_message, messages, tool_calls,
                   idx, bot_response, dispatched, hist0>>

\* lines 287-294: the second remote call returns; its tool_calls are not read
SecondCall(p, final_response) ==
    /\ pc[p] = "call2"
    /\ UNCHANGED <<failures, direct>>
    /\ requests' = [requests EXCEPT ![p] = Append(@, SecondRequest(messages[p]))]
    /\ responses' = [responses EXCEPT ![p] = Append(@, final_response)]
    /\ bot_response' = [bot_response EXCEPT ![p] = FinalText(responses[p][1], final_response)]
    /\ pc' = [pc EXCEPT ![p] = "reply"]
    /\ UNCHANGED <<conversation_history, sinceReset, wasReset, user_message, messages, tool_calls,
                   idx, ret, dispatched, outcome, hist0>>

\* Variant: the augmented part of the outgoing list is stored as well
ReplyKeepsToolMessages(p) ==
    /\ pc[p] = "reply"
    /\ UNCHANGED <<failures, direct>>
    /\ conversation_history' =
            ListAppend(conversation_history
                       \o SubSeq(messages[p], Len(requests[p][1].messages) + 1, Len(messages[p])),
                       AssistantEntry(bot_response[p]))
    /\ sinceReset' = Len(conversation_history')
    /\ UNCHANGED wasReset
    /\ ret' = [ret EXCEPT ![p] = bot_response[p]]
    /\ outcome' = [outcome EXCEPT ![p] = "ok"]
    /\ pc' = [pc EXCEPT ![p] = "done"]
    /\ UNCHANGED <<user_message, messages, tool_calls, idx, bot_response, requests,
                   responses, dispatched, hist0>>

\* lines 300-302: record the reply and return it
Reply(p) ==
    /\ pc[p] = "reply"
    /\ UNCHANGED <<failures, direct>>
    /\ conversation_history' = ListAppend(conversation_history, AssistantEntry(bot_response[p]))
    /\ sinceReset' = sinceReset + 1
    /\ UNCHANGED wasReset
    /\ ret' = [ret EXCEPT ![p] = bot_response[p]]
    /\ outcome' = [outcome EXCEPT ![p] = "ok"]
    /\ pc' = [pc EXCEPT ![p] = "done"]
    /\ UNCHANGED <<user_message, messages, tool_calls, idx, bot_response, requests,
                   responses, dispatched, hist0>>

\* the caller has the returned text; the locals of the call are gone
Return(p) ==
    /\ pc[p] = "done"
    /\ UNCHANGED <<failures, direct>>
    /\ pc' = [pc EXCEPT ![p] = "idle"]
    /\ user_message' = [user_message EXCEPT ![p] = None]
    /\ messages' = [messages EXCEPT ![p] = <<>>]
    /\ tool_calls' = [tool_calls EXCEPT ![p] = <<>>]
    /\ idx' = [idx EXCEPT ![p] = 0]
    /\ bot_response' = [bot_response EXCEPT ![p] = None]
    /\ ret' = [ret EXCEPT ![p] = None]
    /\ requests' = [requests EXCEPT ![p] = <<>>]
    /\ responses' = [responses EXCEPT ![p] = <<>>]
    /\ dispatched' = [dispatched EXCEPT ![p] = <<>>]
    /\ outcome' = [outcome EXCEPT ![p] = "none"]
    /\ hist0' = [hist0 EXCEPT ![p] = <<>>]
    /\ UNCHANGED <<conversation_history, sinceReset, wasReset>>

\* Variant: the history is left as it is
ResetKeepsHistory ==
    /\ \A p \in Procs : pc[p] = "idle"
    /\ conversation_history' = conversation_history
    /\ sinceReset' = 0
    /\ wasReset' = (wasReset \/ conversation_history # <<>>)
    /\ failures' = 0
    /\ UNCHANGED <<pc, locals, direct>>

\* lines 307-309, called between two process_message calls
reset_conversation ==
    /\ \A p \in Procs : pc[p] = "idle"
    /\ conversation_history' = <<>>
    /\ sinceReset' = 0
    /\ wasReset' = (wasReset \/ conversation_history # <<>>)
    /\ failures' = 0
    /\ UNCHANGED <<pc, locals, direct>>

(* ----------------------------- direct calls ---------------------------- *)

\* The callers of the catalog and dispatch methods (tests, CLI) call them on
\* the bot object; a direct call leaves the conversation alone.

conversation == <<conversation_history, pc, locals, sinceReset, wasReset, failures>>

RECURSIVE CaseVariants(_)
CaseVariants(s) ==
    IF s = <<>> THEN {<<>>}
    ELSE {<<c>> \o r : c \in {UpperChar(Head(s)), LowerChar(Head(s))}, r \in CaseVariants(Tail(s))}

\* Identifiers looked up: every catalog key in every letter case, and
\* identifiers that are not in the catalog.
AbsentIds ==
    { <<"X", "X", "9", "9", "9">>,
      <<"x", "x", "9", "9", "9">>,
      <<>>,
      <<"A", "A", "1", "2">>,
      <<"a", "a", "1", "2", "3", "4">>,
      <<"A", "1", "2", "3">> }

LookupIds == UNION {CaseVariants(k) : k \in FlightKeys} \cup AbsentIds

\* Substrings searched for
Origins ==
    { <<>>,
      <<"n", "e", "w">>,
      <<"N", "E", "W", " ", "Y", "O", "R", "K">>,
      <<"o">>,
      <<"(">>,
      <<"N", "e", "w", " ", "Y", "o", "r", "k", " ", "(", "J", "F", "K", ")">>,
      <<"P", "a", "r", "i", "s">> }

Destinations ==
    { <<>>,
      <<"l", "o", "s">>,
      <<"M", "I", "A">>,
      <<"a">>,
      <<"(", "l", "a", "x", ")">>,
      <<"S", "e", "a", "t", "t", "l", "e", " ", "(", "S", "E", "A", ")", " ">>,
      <<"x", ")">> }

\* Records formatted: the catalog and records without gate or terminal
FormatInputs ==
    {FlightOrder[i] : i \in 1..Len(FlightOrder)}
    \cup {[Flight_AA123 EXCEPT !.terminal = None],
          [Flight_AA123 EXCEPT !.gate = <<>>],
          [Flight_SW101 EXCEPT !.terminal = None]}

\* Tool names handed to _execute_function
FunctionNames ==
    {<<"get_flight_info">>, <<"search_flights_by_route">>, <<"get_all_flights">>,
     <<"unknown_function">>, <<"Get_flight_info">>, <<"get_flight">>, <<>>}

\* Parsed argument values handed to _execute_function
ArgumentValues ==
    {[json |-> "list"], [json |-> "dict", items |-> <<>>]}
    \cup {[json |-> "dict", items |-> [flight_number |-> StrVal(id)]] : id \in LookupIds}
    \cup {[json |-> "dict", items |-> [flight_number |-> IntVal(<<"1", "2", "3">>)]],
          [json |-> "dict", items |-> [departure_city |-> StrVal(<<"D", "e", "n", "v", "e", "r">>)]],
          [json |-> "dict", items |-> [arrival_city |-> StrVal(<<"M", "i", "a", "m", "i">>)]],
          [json |-> "dict", items |-> [departure_city |-> IntVal(<<"5">>),
                                       arrival_city |-> StrVal(<<"M", "i", "a", "m", "i">>)]],
          [json |-> "dict", items |-> [departure_city |-> StrVal(<<"C", "h", "i", "c", "a", "g", "o">>),
                                       arrival_city |-> IntVal(<<"5">>)]],
          [json |-> "dict", items |-> [departure_city |-> StrVal(<<"P", "a", "r", "i", "s">>),
                                       arrival_city |-> IntVal(<<"5">>)]]}
    \cup {[json |-> "dict", items |-> [departure_city |-> StrVal(o), arrival_city |-> StrVal(d)]] :
            o \in Origins, d \in Destinations}

\* bot._get_flight_info(flight_number)
Call_get_flight_info(flight_number) ==
    /\ direct' = [op |-> "_get_flight_info", flight_number |-> flight_number,
                  result |-> _get_flight_info(flight_number)]
    /\ UNCHANGED conversation

\* bot.search_flights_by_route(departure_city, arrival_city)
Call_search_flights_by_route(departure_city, arrival_city) ==
    /\ direct' = [op |-> "search_flights_by_route", departure_city |-> departure_city,
                  arrival_city |-> arrival_city,
                  result |-> search_flights_by_route(departure_city, arrival_city)]
    /\ UNCHANGED conversation

\* bot._format_flight_info(flight)
Call_format_flight_info(flight) ==
    /\ direct' = [op |-> "_format_flight_info", flight |-> flight,
                  result |-> _format_flight_info(flight)]
    /\ UNCHANGED conversation

\* bot._execute_function(function_name, arguments)
Call_execute_function(function_name, arguments) ==
    /\ direct' = [op |-> "_execute_function", function_name |-> function_name,
                  arguments |-> arguments,
                  result |-> _execute_function(function_name, arguments)]
    /\ UNCHANGED conversation

DirectNext ==
    \/ \E id \in LookupIds : Call_get_flight_info(id)
    \/ \E o \in Origins, d \in Destinations : Call_search_flights_by_route(o, d)
    \/ \E f \in FormatInputs : Call_format_flight_info(f)
    \/ \E n \in FunctionNames, a \in ArgumentValues : Call_execute_function(n, a)

DirectSpec == Init /\ [][DirectNext]_vars

\* One caller: process_message runs to completion before the next call.
Next ==
    \/ \E p \in SeqProcs, text \in UserTexts : AppendUser(p, text)
    \/ \E p \in SeqProcs : BuildMessages(p)
    \/ \E p \in SeqProcs, e \in Errors : FirstCallFails(p, e)
    \/ \E p \in SeqProcs, r \in Responses : FirstCall(p, r)
    \/ \E p \in SeqProcs : ToolCall(p)
    \/ \E p \in SeqProcs, e \in Errors : SecondCallFails(p, e)
    \/ \E p \in SeqProcs, r \in FinalResponses : SecondCall(p, r)
    \/ \E p \in SeqProcs : Reply(p)
    \/ \E p \in SeqProcs : Return(p)
    \/ reset_conversation

Spec == Init /\ [][Next]_vars

\* The text each of two concurrent callers sends
ConcUserText(p) == IF p = 1 THEN <<"u1">> ELSE <<"u2">>

\* Two threads each call process_message once on a fresh bot; their steps
\* interleave freely (nothing in the code serialises them).
ConcNext ==
    \/ \E p \in Procs : AppendUser(p, ConcUserText(p))
    \/ \E p \in Procs : BuildMessages(p)
    \/ \E p \in Procs, e \in Errors : FirstCallFails(p, e)
    \/ \E p \in Procs, r \in FinalResponses : FirstCall(p, r)
    \/ \E p \in Procs : ToolCall(p)
    \/ \E p \in Procs, e \in Errors : SecondCallFails(p, e)
    \/ \E p \in Procs, r \in FinalResponses : SecondCall(p, r)
    \/ \E p \in Procs : Reply(p)

ConcSpec == Init /\ [][ConcNext]_vars

TypeOK ==
    /\ \A p \in Procs : pc[p] \in {"idle", "build", "call1", "tools", "call2", "reply", "done"}
    /\ Len(conversation_history) <= MaxHist + 2

(* ------------------------------ properties ------------------------------ *)

IsPrefix(a, b) == Len(a) <= Len(b) /\ SubSeq(b, 1, Len(a)) = a

Min(a, b) == IF a <= b THEN a ELSE b

SystemMessage == [role |-> "system", content |-> system_prompt]

\* The call of thread p has returned (its result is in ret[p]).
Returned(p) == pc[p] = "done"

\* The first response of the call of thread p asked for tools.
UsedTools(p) == responses[p] # <<>> /\ "tool_calls" \in DOMAIN responses[p][1]
                /\ responses[p][1].tool_calls # <<>>

\* The first response of the call of thread p asked for no tool.
UsedNoTools(p) == responses[p] # <<>> /\ "tool_calls" \in DOMAIN responses[p][1]
                  /\ responses[p][1].tool_calls = <<>>

\* C1: when a remote call of process_message has failed, the durable history
\* after the return equals the history before the invocation.
C1_FailedCallRestoresHistory ==
    \A p \in Procs :
        (Returned(p) /\ outcome[p] = "remote_error") => conversation_history = hist0[p]

\* C2: the second remote call carries, after the assistant tool-call message,
\* exactly one tool-result message per request of the first response, the
\* i-th tagged with the id of the i-th request and holding its dispatch
\* result; the second call is not reached with fewer.
C2_ToolResultsAnswerRequests ==
    \A p \in Procs :
        (pc[p] = "call2" \/ Len(requests[p]) >= 2) =>
            LET first == requests[p][1].messages
                sent == IF Len(requests[p]) >= 2 THEN requests[p][2].messages ELSE messages[p]
                rs == responses[p][1].tool_calls
                k == Len(rs)
            IN  /\ k >= 1
                /\ Len(sent) = Len(first) + 1 + k
                /\ SubSeq(sent, 1, Len(first)) = first
                /\ sent[Len(first) + 1] =
                       [role |-> "assistant", content |-> responses[p][1].content,
                        tool_calls |-> rs]
                /\ \A i \in 1..k :
                       sent[Len(first) + 1 + i] =
                           [role |-> "tool", tool_call_id |-> rs[i].id,
                            content |-> _execute_function(rs[i].function.name,
                                            json_loads(rs[i].function.arguments).value)]

C2_Witness ==
    \E p \in Procs :
        /\ Len(requests[p]) = 2
        /\ Len(responses[p][1].tool_calls) = 2
        /\ responses[p][1].tool_calls[1].id # responses[p][1].tool_calls[2].id

\* C3: a call whose first response has no tool-call request issues one remote
\* call, returns the text of that response and appends the user entry
\* followed by an assistant entry holding the returned text.
C3_NoToolRoundTrip ==
    \A p \in Procs :
        (Returned(p) /\ outcome[p] = "ok" /\ UsedNoTools(p)) =>
            /\ Len(requests[p]) = 1
            /\ dispatched[p] = <<>>
            /\ ret[p] = responses[p][1].content
            /\ conversation_history =
                   hist0[p] \o <<[role |-> "user", content |-> user_message[p]],
                                 [role |-> "assistant", content |-> ret[p]]>>

C3_Witness ==
    \E p \in Procs :
        /\ Returned(p) /\ outcome[p] = "ok" /\ UsedNoTools(p)
        /\ ret[p] # None
        /\ hist0[p] # <<>>

\* C4: a successful call whose first response has k >= 1 tool-call requests
\* issues two remote calls and k dispatches and returns the text of the
\* second response; there is never a third call or a further dispatch.
C4_ToolRoundTrip ==
    \A p \in Procs :
        /\ Len(requests[p]) <= 2
        /\ UsedTools(p) => Len(dispatched[p]) <= Len(responses[p][1].tool_calls)
        /\ (Returned(p) /\ outcome[p] = "ok" /\ UsedTools(p)) =>
               /\ Len(requests[p]) = 2
               /\ dispatched[p] = [i \in 1..Len(responses[p][1].tool_calls) |-> i]
               /\ ret[p] = responses[p][2].content

C4_Witness ==
    \E p \in Procs :
        /\ Returned(p) /\ outcome[p] = "ok" /\ UsedTools(p)
        /\ Len(responses[p][1].tool_calls) = 2
        /\ responses[p][2].tool_calls # <<>>
        /\ responses[p][2].content # responses[p][1].content

C6_AppendOnly ==
    [][reset_conversation \/ IsPrefix(conversation_history, conversation_history')]_vars

C6_Witness ==
    /\ Len(conversation_history) > 10
    /\ \E p \in Procs : Returned(p) /\ outcome[p] = "ok"

\* C7: after reset_conversation the durable history is empty whatever came
\* before (every durable entry was appended after the last reset), and the
\* next process_message transmits only entries of that history.
C7_ResetEmptiesHistory ==
    /\ Len(conversation_history) = sinceReset
    /\ \A p \in Procs :
           requests[p] # <<>> =>
               LET w == Tail(requests[p][1].messages) IN
               /\ Len(w) <= Len(hist0[p]) + 1
               /\ Len(hist0[p]) + 1 <= sinceReset
               /\ w = SubSeq(conversation_history,
                             Len(hist0[p]) + 2 - Len(w), Len(hist0[p]) + 1)

C7_Witness ==
    /\ wasReset
    /\ \E p \in Procs :
           /\ requests[p] # <<>>
           /\ hist0[p] = <<>>
           /\ Len(requests[p][1].messages) = 2

\* C8: when a remote call raises, process_message returns a text that
\* contains "technical difficulties" and the text of the error.
C8_RemoteFailureApology ==
    \A p \in Procs :
        (responses[p] # <<>> /\ "error" \in DOMAIN responses[p][Len(responses[p])]
           /\ outcome[p] # "parse_error") =>
            /\ Returned(p)
            /\ outcome[p] = "remote_error"
            /\ Contains(<<"technical difficulties">>, ret[p])
            /\ Contains(responses[p][Len(responses[p])].error, ret[p])

C8_Witness ==
    \E p \in Procs :
        /\ Returned(p) /\ outcome[p] = "remote_error"
        /\ Len(requests[p]) = 2

\* C9: a successful call that used tools adds to the durable history only the
\* user entry and one assistant entry holding the final text; the tool-call
\* message and the tool results never enter the durable history.
C9_ToolTrafficNotDurable ==
    /\ \A i \in 1..Len(conversation_history) :
           /\ DOMAIN conversation_history[i] = {"role", "content"}
           /\ conversation_history[i].role \in {"user", "assistant"}
    /\ \A p \in Procs :
           (Returned(p) /\ outcome[p] = "ok" /\ UsedTools(p)) =>
               /\ Len(conversation_history) = Len(hist0[p]) + 2
               /\ conversation_history[Len(hist0[p]) + 1] =
                      [role |-> "user", content |-> user_message[p]]
               /\ conversation_history[Len(hist0[p]) + 2] =
                      [role |-> "assistant", content |-> responses[p][2].content]

C9_Witness ==
    \E p \in Procs :
        /\ Returned(p) /\ outcome[p] = "ok" /\ UsedTools(p)
        /\ Len(messages[p]) > Len(requests[p][1].messages) + 1
        /\ hist0[p] # <<>>

\* C10: the first remote call carries the whole tool registry with tool
\* choice "auto"; the second remote call carries no tool schema.
C10_ToolSchemaOnFirstCallOnly ==
    \A p \in Procs :
        /\ requests[p] # <<>> =>
               /\ "tools" \in DOMAIN requests[p][1]
               /\ requests[p][1].tools = tools
               /\ requests[p][1].tool_choice = "auto"
        /\ Len(requests[p]) >= 2 =>
               /\ "tools" \notin DOMAIN requests[p][2]
               /\ "tool_choice" \notin DOMAIN requests[p][2]

C10_Witness ==
    \E p \in Procs : Len(requests[p]) = 2 /\ Returned(p) /\ outcome[p] = "ok"

\* A returned str: no atom of it stands for None or for a raised exception.
IsText(t) == \A i \in 1..Len(t) : t[i] \notin {"<None>", "<raise>"}

KnownFunctionNames ==
    {<<"get_flight_info">>, <<"search_flights_by_route">>, <<"get_all_flights">>}

\* C11 (as stated): the registry is forwarded verbatim on every request the
\* assistant issues.
C11_ToolsOnEveryRequest ==
    \A p \in Procs :
        \A i \in 1..Len(requests[p]) :
            "tools" \in DOMAIN requests[p][i] /\ requests[p][i].tools = tools

\* C11 (amended): the registry is forwarded verbatim, all descriptors in their
\* order, on the first request of every process_message call; the follow-up
\* request forwards none.
C11_ToolsOnFirstRequestOnly ==
    \A p \in Procs :
        \A i \in 1..Len(requests[p]) :
            IF i = 1
            THEN /\ Len(requests[p][i].tools) = Len(tools)
                 /\ \A j \in 1..Len(tools) : requests[p][i].tools[j] = tools[j]
            ELSE "tools" \notin DOMAIN requests[p][i]

C11_Witness ==
    \E p \in Procs : Len(requests[p]) = 2 /\ pc[p] = "reply"

\* C12: dispatching a name other than the three tool names returns, for any
\* arguments, a text that contains "Unknown function" and the name.
C12_UnknownFunctionText ==
    (direct.op = "_execute_function" /\ direct.function_name \notin KnownFunctionNames) =>
        /\ IsText(direct.result)
        /\ Contains(<<"U", "n", "k", "n", "o", "w", "n", " ", "f", "u", "n", "c", "t", "i", "o", "n">>, direct.result)
        /\ Contains(direct.function_name, direct.result)

C12_Witness ==
    /\ direct.op = "_execute_function"
    /\ direct.function_name = <<"unknown_function">>
    /\ direct.arguments.json = "list"

\* C13: dispatch never lets an exception out: for every name and every
\* argument value it returns a text, and when the body raised, the text
\* describes the error.
C13_DispatchNeverRaises ==
    direct.op = "_execute_function" =>
        /\ direct.result # <<>>
        /\ IsText(direct.result)
        /\ LET r == ExecuteTry(direct.function_name, direct.arguments) IN
           r.raised =>
               /\ direct.result[1] = "Error executing "
               /\ Contains(direct.function_name, direct.result)
               /\ Contains(r.error, direct.result)

C13_Witness ==
    /\ direct.op = "_execute_function"
    /\ direct.function_name = <<"get_flight_info">>
    /\ direct.arguments.json = "dict"
    /\ "flight_number" \in DOMAIN direct.arguments.items
    /\ direct.arguments.items["flight_number"].t = "int"
    /\ direct.result[1] = "Error executing "

\* C14: looking up a catalog identifier in any letter case returns the record
\* stored under the catalog key.
C14_LookupCaseInsensitive ==
    direct.op = "_get_flight_info" =>
        \A i \in 1..Len(FlightOrder) :
            Lower(direct.flight_number) = Lower(FlightOrder[i].flight_number) =>
                direct.result = FlightOrder[i]

C14_Witness ==
    /\ direct.op = "_get_flight_info"
    /\ direct.flight_number = <<"a", "A", "1", "2", "3">>
    /\ direct.result = Flight_AA123

\* C15: an identifier whose upper-case form is no catalog key is not found
\* (None), and dispatching get_flight_info with it returns a text containing
\* "not found" and the identifier as it was given.
C15_AbsentIdentifierNotFound ==
    /\ (direct.op = "_get_flight_info"
          /\ \A i \in 1..Len(FlightOrder) :
                 Upper(direct.flight_number) # FlightOrder[i].flight_number) =>
           direct.result = NoFlight
    /\ (/\ direct.op = "_execute_function"
        /\ direct.function_name = <<"get_flight_info">>
        /\ direct.arguments.json = "dict"
        /\ "flight_number" \in DOMAIN direct.arguments.items
        /\ direct.arguments.items["flight_number"].t = "str"
        /\ \A i \in 1..Len(FlightOrder) :
               Upper(direct.arguments.items["flight_number"].v) # FlightOrder[i].flight_number) =>
           /\ IsText(direct.result)
           /\ Contains(<<"n", "o", "t", " ", "f", "o", "u", "n", "d">>, direct.result)
           /\ Contains(direct.arguments.items["flight_number"].v, direct.result)

C15_Witness ==
    /\ direct.op = "_execute_function"
    /\ direct.function_name = <<"get_flight_info">>
    /\ direct.arguments = [json |-> "dict",
                           items |-> [flight_number |-> StrVal(<<"x", "x", "9", "9", "9">>)]]

\* The record matches the two substrings, letter case aside.
RouteMatches(flight, origin, dest) ==
    /\ \E i \in 0..(Len(flight.departure_city) - Len(origin)) :
           \A j \in 1..Len(origin) :
               LowerChar(flight.departure_city[i + j]) = LowerChar(origin[j])
    /\ \E i \in 0..(Len(flight.arrival_city) - Len(dest)) :
           \A j \in 1..Len(dest) :
               LowerChar(flight.arrival_city[i + j]) = LowerChar(dest[j])

\* C16: search_flights_by_route returns exactly the catalog records whose
\* departure city contains the origin and whose arrival city contains the
\* destination, letter case aside; with both empty, the whole catalog.
C16_SearchExact ==
    direct.op = "search_flights_by_route" =>
        /\ \A i \in 1..Len(direct.result) :
               /\ \E k \in 1..Len(FlightOrder) : direct.result[i] = FlightOrder[k]
               /\ RouteMatches(direct.result[i], direct.departure_city, direct.arrival_city)
               /\ \A j \in 1..Len(direct.result) : direct.result[j] = direct.result[i] => j = i
        /\ \A k \in 1..Len(FlightOrder) :
               RouteMatches(FlightOrder[k], direct.departure_city, direct.arrival_city) =>
                   \E i \in 1..Len(direct.result) : direct.result[i] = FlightOrder[k]
        /\ (direct.departure_city = <<>> /\ direct.arrival_city = <<>>) =>
               Len(direct.result) = Len(FlightOrder)

C16_Witness ==
    /\ direct.op = "search_flights_by_route"
    /\ direct.departure_city = <<"N", "E", "W", " ", "Y", "O", "R", "K">>
    /\ direct.arrival_city = <<"l", "o", "s">>
    /\ direct.result = <<Flight_AA123>>

\* C18: for a record with a gate and a terminal the formatted text contains
\* "Flight <number>", both cities, both times, the status, the terminal and
\* "Gate <gate>".
C18_FormatHasGateText ==
    (direct.op = "_format_flight_info" /\ Truthy(direct.flight.gate)
       /\ Truthy(direct.flight.terminal)) =>
        /\ Contains(<<"F", "l", "i", "g", "h", "t", " ">> \o direct.flight.flight_number, direct.result)
        /\ Contains(direct.flight.departure_city, direct.result)
        /\ Contains(direct.flight.arrival_city, direct.result)
        /\ Contains(direct.flight.departure_time, direct.result)
        /\ Contains(direct.flight.arrival_time, direct.result)
        /\ Contains(direct.flight.status, direct.result)
        /\ Contains(direct.flight.terminal, direct.result)
        /\ Contains(<<"G", "a", "t", "e", " ">> \o direct.flight.gate, direct.result)

\* C17: two concurrent calls race on append-then-read: the list a thread
\* builds is the shared history as it stands when the thread reads it,
\* whatever the other thread has appended since this thread's own append.
C17_ReadTakesSharedHistory ==
    [][\A p \in Procs :
           (pc[p] = "build" /\ pc'[p] = "call1") =>
               /\ Len(messages'[p]) = 1 + Len(conversation_history)
               /\ \A i \in 1..Len(conversation_history) :
                      messages'[p][1 + i] = conversation_history[i]]_vars

\* The racing state: the list thread p sent in its first call ends with the
\* user message of thread q, and p's reply sits in the durable history right
\* after something other than p's user message.
C17_Witness ==
    \E p \in Procs, q \in Procs :
        /\ p # q
        /\ Returned(p) /\ outcome[p] = "ok"
        /\ user_message[q] # user_message[p]
        /\ requests[p][1].messages[Len(requests[p][1].messages)] =
               [role |-> "user", content |-> user_message[q]]
        /\ conversation_history[Len(conversation_history)] =
               [role |-> "assistant", content |-> ret[p]]
        /\ conversation_history[Len(conversation_history) - 1] #
               [role |-> "user", content |-> user_message[p]]

\* The first request of the response whose argument payload does not parse
\* (0 when all parse).
FirstUnparsable(tcs) ==
    IF \E j \in 1..Len(tcs) : tcs[j].function.arguments.json = "invalid"
    THEN CHOOSE j \in 1..Len(tcs) :
             /\ tcs[j].function.arguments.json = "invalid"
             /\ \A i \in 1..(j - 1) : tcs[i].function.arguments.json # "invalid"
    ELSE 0

\* C19: when the payload of the j-th tool-call request does not parse,
\* requests 1..j-1 are dispatched and no other, no second remote call is
\* issued, the call returns the apology text, and the durable history has
\* gained only the user message.
C19_UnparsablePayloadAborts ==
    \A p \in Procs :
        (UsedTools(p) /\ FirstUnparsable(responses[p][1].tool_calls) > 0) =>
            LET j == FirstUnparsable(responses[p][1].tool_calls) IN
            /\ Len(dispatched[p]) <= j - 1
            /\ Len(requests[p]) = 1
            /\ pc[p] \in {"tools", "done"}
            /\ conversation_history =
                   Append(hist0[p], [role |-> "user", content |-> user_message[p]])
            /\ Returned(p) =>
                   /\ outcome[p] = "parse_error"
                   /\ dispatched[p] = [i \in 1..(j - 1) |-> i]
                   /\ Len(messages[p]) = Len(requests[p][1].messages) + j
                   /\ Contains(<<"technical difficulties">>, ret[p])
                   /\ Contains(JSONDecodeError, ret[p])

C19_Witness ==
    \E p \in Procs :
        /\ Returned(p) /\ outcome[p] = "parse_error"
        /\ Len(responses[p][1].tool_calls) = 2
        /\ dispatched[p] = <<1>>
        /\ hist0[p] # <<>>

RECURSIVE CountRole(_, _)
CountRole(h, role) ==
    IF h = <<>> THEN 0
    ELSE (IF Head(h).role = role THEN 1 ELSE 0) + CountRole(Tail(h), role)

\* Calls that have appended their user message and neither replied nor failed
InFlight == Cardinality({p \in Procs : pc[p] \in {"build", "call1", "tools", "call2", "reply"}})

\* C20: in a sequential run every durable entry has role user or assistant,
\* every assistant entry comes right after a user entry, and the user
\* entries outnumber the assistant entries by the number of calls that
\* failed since the last reset (plus the call in progress, if any).
C20_HistoryShape ==
    /\ \A i \in 1..Len(conversation_history) :
           /\ conversation_history[i].role \in {"user", "assistant"}
           /\ conversation_history[i].role = "assistant" =>
                  (i > 1 /\ conversation_history[i - 1].role = "user")
    /\ CountRole(conversation_history, "user") - CountRole(conversation_history, "assistant")
           = failures + InFlight

C20_Witness ==
    /\ \A p \in Procs : pc[p] = "idle"
    /\ wasReset
    /\ failures = 2
    /\ Len(conversation_history) = 6
    /\ conversation_history[1].role = "user" /\ conversation_history[2].role = "user"

====
